---- MODULE Spec2Model ----
(***************************************************************************)
(* Model of the flask-database-starter tutorial applications.              *)
(*                                                                         *)
(*   part-4/app.py : the books REST API (Flask + Flask-SQLAlchemy on      *)
(*                   SQLite): list with pagination and sorting, get,      *)
(*                   create, update, delete, search.                      *)
(*   part-3/app.py : the students / courses form application.             *)
(*   part-5/app.py : the products application on a configurable database. *)
(*   part-6/app.py : the products application on MongoDB-style settings.  *)
(*                                                                         *)
(* Text is a sequence of one-character strings, so that LIKE patterns,     *)
(* case folding, integer parsing and BINARY collation are computed and     *)
(* not assumed.  A nullable value is NULL (SQL NULL, Python None, JSON     *)
(* null, an absent query argument) or Val(v).                              *)
(* The table `book` is the sequence `books` in rowid order, which is the   *)
(* order of a full table scan in SQLite.                                   *)
(***************************************************************************)
EXTENDS Integers, Sequences, FiniteSets, TLC

VARIABLES books,     \* rows of table book (part 4), in rowid order
          clock,     \* datetime.utcnow(), as a logical time
          teachers,  \* rows of table teacher (part 3)
          courses,   \* rows of table course (part 3)
          students,  \* rows of table student (part 3), in rowid order
          products5, \* rows of table product (part 5)
          products6, \* rows of table products (part 6)
          workers,   \* the POST /api/books requests in progress (part 4)
          req,       \* the request handled last
          resp       \* the response to it

vars == <<books, clock, teachers, courses, students, products5, products6,
          workers, req, resp>>

library == <<books, clock>>
school == <<teachers, courses, students>>
shop == <<products5, products6>>

----------------------------------------------------------------------------
(* Values *)

NULL == <<>>
Val(v) == <<v>>

\* Python: `x or default` on an optional value
Get(o, default) == IF o = NULL THEN default ELSE o[1]

\* printable ASCII, code 32 .. 126 (code 96, the grave accent, by name)
Ascii ==
  <<" ", "!", "\"", "#", "$", "%", "&", "'", "(", ")", "*", "+", ",", "-", ".", "/",
    "0", "1", "2", "3", "4", "5", "6", "7", "8", "9", ":", ";", "<", "=", ">", "?",
    "@", "A", "B", "C", "D", "E", "F", "G", "H", "I", "J", "K", "L", "M", "N", "O",
    "P", "Q", "R", "S", "T", "U", "V", "W", "X", "Y", "Z", "[", "\\", "]", "^", "_",
    "grave", "a", "b", "c", "d", "e", "f", "g", "h", "i", "j", "k", "l", "m", "n", "o",
    "p", "q", "r", "s", "t", "u", "v", "w", "x", "y", "z", "{", "|", "}", "~">>

OrdTable ==
  [c \in {Ascii[i] : i \in 1..Len(Ascii)} |-> 31 + (CHOOSE i \in 1..Len(Ascii) : Ascii[i] = c)]

\* Python ord(c)
Ord(c) == OrdTable[c]

Chr(n) == Ascii[n - 31]

\* SQL lower() / the ASCII case folding of SQLite's LIKE, on one character
LowerChar(c) == IF Ord(c) \in 65..90 THEN Chr(Ord(c) + 32) ELSE c

Lower(s) == [i \in 1..Len(s) |-> LowerChar(s[i])]

\* BINARY collation: s sorts strictly before t
RECURSIVE StrLess(_, _)
StrLess(s, t) ==
  IF t = <<>> THEN FALSE
  ELSE IF s = <<>> THEN TRUE
  ELSE IF Ord(Head(s)) # Ord(Head(t)) THEN Ord(Head(s)) < Ord(Head(t))
  ELSE StrLess(Tail(s), Tail(t))

Digits == {"0", "1", "2", "3", "4", "5", "6", "7", "8", "9"}

RECURSIVE DigitsValue(_, _)
DigitsValue(s, acc) ==
  IF s = <<>> THEN acc
  ELSE DigitsValue(Tail(s), 10 * acc + (Ord(Head(s)) - 48))

\* Python int(text): an optional sign and decimal digits give Val(n);
\* anything else raises ValueError, here NULL
ParseInt(s) ==
  LET signed == s # <<>> /\ Head(s) \in {"+", "-"}
      ds     == IF signed THEN Tail(s) ELSE s
  IN  IF ds = <<>> \/ \E i \in 1..Len(ds) : ds[i] \notin Digits THEN NULL
      ELSE IF signed /\ Head(s) = "-" THEN Val(0 - DigitsValue(ds, 0))
      ELSE Val(DigitsValue(ds, 0))

\* request.args.get(name, default, type=int): the default when the argument
\* is absent or int() raises ValueError
ArgInt(arg, default) ==
  IF arg = NULL THEN default ELSE Get(ParseInt(arg[1]), default)

\* request.args.get(name, default)
ArgStr(arg, default) == Get(arg, default)

\* Python truth value of an optional text: None and '' are false
Truthy(o) == o # NULL /\ o[1] # <<>>

----------------------------------------------------------------------------
(* part-4: the Book model *)

BookColumns == {"id", "title", "author", "year", "isbn", "created_at"}

\* the column names as query-string text
ColumnText(name) ==
  CASE name = "id"         -> <<"i", "d">>
    [] name = "title"      -> <<"t", "i", "t", "l", "e">>
    [] name = "author"     -> <<"a", "u", "t", "h", "o", "r">>
    [] name = "year"       -> <<"y", "e", "a", "r">>
    [] name = "isbn"       -> <<"i", "s", "b", "n">>
    [] name = "created_at" -> <<"c", "r", "e", "a", "t", "e", "d", "_", "a", "t">>

\* attributes of class Book that are not mapped columns: the method to_dict
\* and what db.Model contributes
BookOtherAttrs ==
  { <<"t", "o", "_", "d", "i", "c", "t">>,
    <<"q", "u", "e", "r", "y">>,
    <<"m", "e", "t", "a", "d", "a", "t", "a">> }

IsColumn(sort) == \E c \in BookColumns : ColumnText(c) = sort

ColumnOf(sort) == CHOOSE c \in BookColumns : ColumnText(c) = sort

\* hasattr(Book, sort)
HasAttr(sort) == IsColumn(sort) \/ sort \in BookOtherAttrs

\* datetime.isoformat()
IsoFormat(t) == <<"iso", t>>

to_dict(b) ==
  [id |-> b.id, title |-> b.title, author |-> b.author, year |-> b.year,
   isbn |-> b.isbn, created_at |-> IsoFormat(b.created_at)]

Book(id, title, author, year, isbn, created_at) ==
  [id |-> id, title |-> title, author |-> author, year |-> year,
   isbn |-> isbn, created_at |-> created_at]

SeedBooks ==
  << Book(1, Val(<<"P","y","t","h","o","n"," ","C","r","a","s","h"," ","C","o","u","r","s","e">>),
             Val(<<"E","r","i","c"," ","M","a","t","t","h","e","s">>),
             Val(2019), NULL, 1),
     Book(2, Val(<<"F","l","a","s","k"," ","W","e","b"," ","D","e","v","e","l","o","p","m","e","n","t">>),
             Val(<<"M","i","g","u","e","l"," ","G","r","i","n","b","e","r","g">>),
             Val(2018), NULL, 2),
     Book(3, Val(<<"C","l","e","a","n"," ","C","o","d","e">>),
             Val(<<"R","o","b","e","r","t"," ","C","."," ","M","a","r","t","i","n">>),
             Val(2008), NULL, 3),
     Book(4, Val(<<"E","f","f","e","c","t","i","v","e"," ","P","y","t","h","o","n">>),
             Val(<<"B","r","e","t","t"," ","S","l","a","t","k","i","n">>),
             Val(2020), NULL, 4) >>

----------------------------------------------------------------------------
(* part-4: the query layer (SQLAlchemy on SQLite) *)

Ids(rows) == {rows[i].id : i \in 1..Len(rows)}

\* the rows at the positions in keep, in their order
Select(rows, keep) ==
  LET nth(r) == CHOOSE i \in keep : Cardinality({j \in keep : j < i}) = r - 1
  IN  [r \in 1..Cardinality(keep) |-> rows[nth(r)]]

\* a lookup that falls back to the first row
QueryGetOrFirst(rows, id) ==
  IF id \in Ids(rows)
  THEN Val(rows[CHOOSE i \in 1..Len(rows) : rows[i].id = id])
  ELSE IF rows # <<>> THEN Val(rows[1]) ELSE NULL

\* Book.query.get(id): the row or NULL
QueryGet(rows, id) ==
  IF id \in Ids(rows)
  THEN Val(rows[CHOOSE i \in 1..Len(rows) : rows[i].id = id])
  ELSE NULL

\* SQLite comparison of two values of one column: NULL sorts first, integers
\* numerically, text in BINARY collation
ValueLess(col, a, b) ==
  IF a = NULL THEN b # NULL
  ELSE IF b = NULL THEN FALSE
  ELSE IF col \in {"title", "author", "isbn"} THEN StrLess(a[1], b[1])
  ELSE a[1] < b[1]

ColumnValue(b, col) ==
  CASE col = "id"         -> Val(b.id)
    [] col = "title"      -> b.title
    [] col = "author"     -> b.author
    [] col = "year"       -> b.year
    [] col = "isbn"       -> b.isbn
    [] col = "created_at" -> Val(b.created_at)

\* the rows with row i at position rank[i]; rank is a permutation of
\* 1..Len(rows)
Arrange(rows, rank) ==
  [r \in 1..Len(rows) |-> rows[CHOOSE i \in 1..Len(rows) : rank[i] = r]]

\* query.order_by(column.asc()) / query.order_by(column.desc()) as SQLite
\* executes it.  isbn carries the UNIQUE index sqlite_autoindex_book_1, whose
\* entries are (isbn, rowid): the planner walks it forwards for ASC and
\* backwards for DESC.  Every other column is sorted by the sorter, which
\* leaves rows of equal key in scan order.
OrderBy(rows, col, desc) ==
  LET n == Len(rows)
      key == [i \in 1..n |-> ColumnValue(rows[i], col)]
      \* ascending, rows of equal key in scan order
      asc == [i \in 1..n |->
                1 + Cardinality({j \in 1..n : \/ ValueLess(col, key[j], key[i])
                                              \/ (key[j] = key[i] /\ j < i)})]
      \* descending, rows of equal key in scan order
      dsc == [i \in 1..n |->
                1 + Cardinality({j \in 1..n : \/ ValueLess(col, key[i], key[j])
                                              \/ (key[j] = key[i] /\ j < i)})]
      \* the ascending order read backwards
      back == [i \in 1..n |-> n + 1 - asc[i]]
  IN  IF col = "isbn"
      THEN (IF desc THEN Arrange(rows, back) ELSE Arrange(rows, asc))
      ELSE (IF desc THEN Arrange(rows, dsc) ELSE Arrange(rows, asc))

\* a limit that lets one row too many through
LimitOffsetOneMore(rows, limit, offset) ==
  SubSeq(rows, offset + 1, IF offset + limit + 1 < Len(rows) THEN offset + limit + 1 ELSE Len(rows))

\* query.limit(n).offset(k).all()
LimitOffset(rows, limit, offset) ==
  SubSeq(rows, offset + 1, IF offset + limit < Len(rows) THEN offset + limit ELSE Len(rows))

\* per_page that Flask-SQLAlchemy substitutes for one below 1
PaginateDefaultPerPage == 20

\* a pagination whose total counts the rows of the page
paginateCountingPage(rows, page, per_page) ==
  LET p  == IF page < 1 THEN 1 ELSE page
      pp == IF per_page < 1 THEN PaginateDefaultPerPage ELSE per_page
  IN  [items |-> LimitOffset(rows, pp, (p - 1) * pp),
       total |-> Len(LimitOffset(rows, pp, (p - 1) * pp))]

\* query.paginate(page=page, per_page=per_page, error_out=False)
paginate(rows, page, per_page) ==
  LET p  == IF page < 1 THEN 1 ELSE page
      pp == IF per_page < 1 THEN PaginateDefaultPerPage ELSE per_page
  IN  [items |-> LimitOffset(rows, pp, (p - 1) * pp),
       total |-> Len(rows)]

----------------------------------------------------------------------------
(* part-4: GET /api/books *)

ServerError == [status |-> 500]

Desc == <<"d", "e", "s", "c">>
Asc  == <<"a", "s", "c">>

get_books_response(rows, args) ==
  LET page     == ArgInt(args.page, 1)
      per_page == ArgInt(args.per_page, 5)
      sort     == ArgStr(args.sort, ColumnText("id"))
      order    == ArgStr(args.order, Asc)
  IN  IF HasAttr(sort) /\ ~IsColumn(sort)
      THEN ServerError    \* AttributeError: no attribute 'asc'
      ELSE
        LET query == IF HasAttr(sort)
                     THEN OrderBy(rows, ColumnOf(sort), order = Desc)
                     ELSE rows
            pagination == paginate(query, page, per_page)
        IN  [status |-> 200, success |-> TRUE, page |-> page, per_page |-> per_page,
             total |-> pagination.total,
             books |-> [i \in 1..Len(pagination.items) |-> to_dict(pagination.items[i])]]

get_books(args) ==
  /\ req' = [route |-> "get_books", args |-> args]
  /\ resp' = get_books_response(books, args)
  /\ UNCHANGED <<books, clock, school, shop, workers>>

----------------------------------------------------------------------------
(* part-4: single-book routes *)

NotFound == [status |-> 404, success |-> FALSE, error |-> "Book not found"]

\* dict.get(key): None when the key is absent
DictGet(d, k) == IF k \in DOMAIN d THEN d[k] ELSE NULL

\* the largest rowid plus one: SQLite's INTEGER PRIMARY KEY without AUTOINCREMENT
NextId(rows) ==
  IF rows = <<>> THEN 1
  ELSE 1 + (CHOOSE m \in Ids(rows) : \A k \in Ids(rows) : k <= m)

\* Book.query.filter_by(isbn=isbn).first()
FirstByIsbn(rows, isbn) ==
  IF \E i \in 1..Len(rows) : rows[i].isbn = Val(isbn)
  THEN Val(rows[CHOOSE i \in 1..Len(rows) :
                  /\ rows[i].isbn = Val(isbn)
                  /\ \A j \in 1..(i - 1) : rows[j].isbn # Val(isbn)])
  ELSE NULL

\* the constraints of table book that SQLite checks on INSERT and UPDATE:
\* title and author NOT NULL, isbn UNIQUE (any number of NULLs)
BookConstraints(rows) ==
  /\ \A i \in 1..Len(rows) : rows[i].title # NULL /\ rows[i].author # NULL
  /\ \A i, j \in 1..Len(rows) :
       (i # j /\ rows[i].isbn # NULL) => rows[i].isbn # rows[j].isbn

get_book(id) ==
  LET book == QueryGet(books, id)
  IN  /\ req' = [route |-> "get_book", id |-> id]
      /\ resp' = IF book = NULL THEN NotFound
                 ELSE [status |-> 200, success |-> TRUE, book |-> to_dict(book[1])]
      /\ UNCHANGED <<books, clock, school, shop, workers>>

\* a check of the title alone
TitleMissing(json) ==
  \/ json = NULL
  \/ DOMAIN json[1] = {}
  \/ ~Truthy(DictGet(json[1], "title"))

\* not data or not data.get('title') or not data.get('author')
TitleOrAuthorMissing(json) ==
  \/ json = NULL
  \/ DOMAIN json[1] = {}
  \/ ~Truthy(DictGet(json[1], "title"))
  \/ ~Truthy(DictGet(json[1], "author"))

\* json is request.get_json(): NULL, or Val(d) for a JSON object d, a function
\* from the keys present to their values (NULL for a JSON null)
create_book(json) ==
  LET data == Get(json, <<>>)
      book == Book(NextId(books), DictGet(data, "title"), DictGet(data, "author"),
                   DictGet(data, "year"), DictGet(data, "isbn"), clock)
      added == Append(books, book)
  IN  /\ req' = [route |-> "create_book", json |-> json]
      /\ UNCHANGED <<school, shop, workers>>
      /\ IF TitleOrAuthorMissing(json)
         THEN /\ resp' = [status |-> 400, success |-> FALSE, error |-> "Title & Author required"]
              /\ UNCHANGED <<books, clock>>
         ELSE IF /\ Truthy(DictGet(data, "isbn"))
                 /\ FirstByIsbn(books, data["isbn"][1]) # NULL
         THEN /\ resp' = [status |-> 400, success |-> FALSE, error |-> "ISBN already exists"]
              /\ UNCHANGED <<books, clock>>
         ELSE IF ~BookConstraints(added)
         THEN \* commit raises IntegrityError; the session is rolled back
              /\ resp' = ServerError
              /\ UNCHANGED <<books, clock>>
         ELSE /\ books' = added
              /\ clock' = clock + 1
              /\ resp' = [status |-> 201, success |-> TRUE, message |-> "Book created",
                          book |-> to_dict(book)]

(* create_book as the server runs it when several POST requests are handled
   at once, each by its own thread with its own session.  A request touches
   the database twice: the SELECT of line 111, and db.session.commit() of
   line 122, which sends the INSERT and commits it in one write transaction
   (SQLite admits one writer at a time).  workers[w] is request w: where it
   stands (pc), its body, the Book it holds and, once answered, its
   response. *)

\* the request arrives: lines 106-112
create_book_lookup(json) ==
  LET data == Get(json, <<>>)
      answered(r) == [pc |-> "done", json |-> json, book |-> NULL, resp |-> r]
  IN  /\ UNCHANGED <<library, school, shop, req, resp>>
      /\ IF TitleOrAuthorMissing(json)
         THEN workers' = Append(workers, answered(
                [status |-> 400, success |-> FALSE, error |-> "Title & Author required"]))
         ELSE IF /\ Truthy(DictGet(data, "isbn"))
                 /\ FirstByIsbn(books, data["isbn"][1]) # NULL
         THEN workers' = Append(workers, answered(
                [status |-> 400, success |-> FALSE, error |-> "ISBN already exists"]))
         ELSE workers' = Append(workers,
                [pc |-> "add", json |-> json, book |-> NULL, resp |-> [status |-> 0]])

\* lines 114-121: Book(...) and db.session.add(book); nothing is sent yet
create_book_add(w) ==
  LET data == workers[w].json[1]
      book == [title |-> DictGet(data, "title"), author |-> DictGet(data, "author"),
               year |-> DictGet(data, "year"), isbn |-> DictGet(data, "isbn")]
  IN  /\ workers[w].pc = "add"
      /\ workers' = [workers EXCEPT ![w].pc = "commit", ![w].book = Val(book)]
      /\ UNCHANGED <<library, school, shop, req, resp>>

\* lines 122-128: the INSERT takes the next id and the time of the flush
create_book_commit(w) ==
  LET held == workers[w].book[1]
      book == Book(NextId(books), held.title, held.author, held.year, held.isbn, clock)
      added == Append(books, book)
  IN  /\ workers[w].pc = "commit"
      /\ UNCHANGED <<school, shop, req, resp>>
      /\ IF ~BookConstraints(added)
         THEN \* IntegrityError; nothing catches it
              /\ workers' = [workers EXCEPT ![w].pc = "done", ![w].resp = ServerError]
              /\ UNCHANGED <<books, clock>>
         ELSE /\ books' = added
              /\ clock' = clock + 1
              /\ workers' = [workers EXCEPT ![w].pc = "done",
                               ![w].resp = [status |-> 201, success |-> TRUE,
                                            message |-> "Book created",
                                            book |-> to_dict(book)]]

update_book(id, json) ==
  LET found == QueryGet(books, id)
      data  == Get(json, <<>>)
      old   == found[1]
      new   == [old EXCEPT
                  !.title  = IF "title"  \in DOMAIN data THEN data["title"]  ELSE @,
                  !.author = IF "author" \in DOMAIN data THEN data["author"] ELSE @,
                  !.year   = IF "year"   \in DOMAIN data THEN data["year"]   ELSE @,
                  !.isbn   = IF "isbn"   \in DOMAIN data THEN data["isbn"]   ELSE @]
      updated == [i \in 1..Len(books) |-> IF books[i].id = old.id THEN new ELSE books[i]]
  IN  /\ req' = [route |-> "update_book", id |-> id, json |-> json]
      /\ UNCHANGED <<clock, school, shop, workers>>
      /\ IF found = NULL
         THEN /\ resp' = NotFound
              /\ UNCHANGED books
         ELSE IF json = NULL
         THEN \* TypeError: argument of type 'NoneType' is not iterable
              /\ resp' = ServerError
              /\ UNCHANGED books
         ELSE IF ~BookConstraints(updated)
         THEN \* commit raises IntegrityError; the session is rolled back
              /\ resp' = ServerError
              /\ UNCHANGED books
         ELSE /\ books' = updated
              /\ resp' = [status |-> 200, success |-> TRUE, book |-> to_dict(new)]

delete_book(id) ==
  LET found == QueryGet(books, id)
      others == {i \in 1..Len(books) : books[i].id # found[1].id}
  IN  /\ req' = [route |-> "delete_book", id |-> id]
      /\ UNCHANGED <<clock, school, shop, workers>>
      /\ IF found = NULL
         THEN /\ resp' = NotFound
              /\ UNCHANGED books
         ELSE /\ books' = Select(books, others)
              /\ resp' = [status |-> 200, success |-> TRUE, message |-> "Book deleted"]

----------------------------------------------------------------------------
(* part-4: GET /api/books/search *)

\* SQLite's  text LIKE pattern  after lower() on both sides: % matches any
\* run of characters, _ matches one character, there is no escape character
RECURSIVE Like(_, _)
Like(text, pattern) ==
  IF pattern = <<>> THEN text = <<>>
  ELSE IF Head(pattern) = "%"
       THEN Like(text, Tail(pattern)) \/ (text # <<>> /\ Like(Tail(text), pattern))
  ELSE IF text = <<>> THEN FALSE
  ELSE IF Head(pattern) = "_" THEN Like(Tail(text), Tail(pattern))
  ELSE /\ LowerChar(Head(text)) = LowerChar(Head(pattern))
       /\ Like(Tail(text), Tail(pattern))

\* column.ilike(f'%{text}%') on one value of the column
ILikeContains(value, text) ==
  value # NULL /\ Like(Lower(value[1]), Lower(<<"%">> \o text \o <<"%">>))

search_books_response(rows, args) ==
  LET title  == args.q
      author == args.author
      year   == args.year
      byTitle(b)  == Truthy(title) => ILikeContains(b.title, title[1])
      byAuthor(b) == Truthy(author) => ILikeContains(b.author, author[1])
      byYear(b)   == Truthy(year) => b.year = ParseInt(year[1])
      keep == {i \in 1..Len(rows) :
                 byTitle(rows[i]) /\ byAuthor(rows[i]) /\ byYear(rows[i])}
      found == Select(rows, keep)
  IN  IF Truthy(year) /\ ParseInt(year[1]) = NULL
      THEN ServerError    \* ValueError: invalid literal for int()
      ELSE [status |-> 200, success |-> TRUE, count |-> Len(found),
            books |-> [i \in 1..Len(found) |-> to_dict(found[i])]]

search_books(args) ==
  /\ req' = [route |-> "search_books", args |-> args]
  /\ resp' = search_books_response(books, args)
  /\ UNCHANGED <<books, clock, school, shop, workers>>

----------------------------------------------------------------------------
(* part-3: teachers, courses, students *)

Teacher(id, name, email) == [id |-> id, name |-> name, email |-> email]

Course(id, name, description, teacher_id) ==
  [id |-> id, name |-> name, description |-> description, teacher_id |-> teacher_id]

Student(id, name, email, course_id) ==
  [id |-> id, name |-> name, email |-> email, course_id |-> course_id]

SeedTeachers ==
  << Teacher(1, <<"M","r","."," ","S","h","a","r","m","a">>,
                <<"s","h","a","r","m","a","@","s","c","h","o","o","l",".","c","o","m">>),
     Teacher(2, <<"M","s","."," ","P","a","t","i","l">>,
                <<"p","a","t","i","l","@","s","c","h","o","o","l",".","c","o","m">>) >>

SeedCourses ==
  << Course(1, <<"P","y","t","h","o","n"," ","B","a","s","i","c","s">>,
               <<"P","y","t","h","o","n"," ","f","u","n","d","a","m","e","n","t","a","l","s">>,
               Val(1)),
     Course(2, <<"W","e","b"," ","D","e","v","e","l","o","p","m","e","n","t">>,
               <<"F","l","a","s","k"," ","&"," ","W","e","b"," ","T","e","c","h">>,
               Val(2)),
     Course(3, <<"D","a","t","a"," ","S","c","i","e","n","c","e">>,
               <<"D","a","t","a"," ","a","n","a","l","y","s","i","s">>,
               Val(1)) >>

\* Student.query.filter_by(email=email).first()
FirstByEmail(rows, email) ==
  IF \E i \in 1..Len(rows) : rows[i].email = email
  THEN Val(rows[CHOOSE i \in 1..Len(rows) :
                  /\ rows[i].email = email
                  /\ \A j \in 1..(i - 1) : rows[j].email # email])
  ELSE NULL

\* the constraint of table student that SQLite checks: email UNIQUE.  (name,
\* email and course_id are never NULL here, and SQLite does not check the
\* foreign key course_id unless PRAGMA foreign_keys is switched on.)
StudentConstraints(rows) ==
  \A i, j \in 1..Len(rows) : i # j => rows[i].email # rows[j].email

\* form is request.form: the texts name, email, course_id.  course_id goes
\* into an INTEGER column, which stores a decimal text as its integer
add_student(method, form) ==
  LET student == Student(NextId(students), form.name, form.email, ParseInt(form.course_id))
      added == Append(students, student)
  IN  /\ req' = [route |-> "add_student", method |-> method, form |-> form]
      /\ UNCHANGED <<library, teachers, courses, shop, workers>>
      /\ IF method # "POST"
         THEN /\ resp' = [status |-> 200, template |-> "add.html"]
              /\ UNCHANGED students
         ELSE IF FirstByEmail(students, form.email) # NULL
         THEN /\ resp' = [status |-> 302, location |-> "add_student",
                          flash |-> "Email already exists!"]
              /\ UNCHANGED students
         ELSE IF ~StudentConstraints(added)
         THEN /\ resp' = ServerError
              /\ UNCHANGED students
         ELSE /\ students' = added
              /\ resp' = [status |-> 302, location |-> "index",
                          flash |-> "Student added successfully!"]

delete_student(id) ==
  LET found == QueryGet(students, id)
      others == {i \in 1..Len(students) : students[i].id # found[1].id}
  IN  /\ req' = [route |-> "delete_student", id |-> id]
      /\ UNCHANGED <<library, teachers, courses, shop, workers>>
      /\ IF found = NULL
         THEN /\ resp' = [status |-> 404]
              /\ UNCHANGED students
         ELSE /\ students' = Select(students, others)
              /\ resp' = [status |-> 302, location |-> "index", flash |-> "Student deleted!"]

\* GET shows the form of a stored student; POST assigns the three form
\* fields to it and commits, with no check before the commit
edit_student(id, method, form) ==
  LET found == QueryGet(students, id)
      updated == [i \in 1..Len(students) |->
                    IF students[i].id = id
                    THEN Student(id, form.name, form.email, ParseInt(form.course_id))
                    ELSE students[i]]
  IN  /\ req' = [route |-> "edit_student", id |-> id, method |-> method, form |-> form]
      /\ UNCHANGED <<library, teachers, courses, shop, workers>>
      /\ IF found = NULL
         THEN /\ resp' = [status |-> 404]
              /\ UNCHANGED students
         ELSE IF method # "POST"
         THEN /\ resp' = [status |-> 200, template |-> "edit.html"]
              /\ UNCHANGED students
         ELSE IF ~StudentConstraints(updated)
         THEN /\ resp' = ServerError
              /\ UNCHANGED students
         ELSE /\ students' = updated
              /\ resp' = [status |-> 302, location |-> "index",
                          flash |-> "Student updated successfully!"]

\* form is request.form: the texts name and teacher_id, and description when
\* the form carries one (NULL when it does not: the handler stores '')
add_course(method, form) ==
  LET course == Course(NextId(courses), form.name, Get(form.description, <<>>),
                       ParseInt(form.teacher_id))
  IN  /\ req' = [route |-> "add_course", method |-> method, form |-> form]
      /\ UNCHANGED <<library, teachers, students, shop, workers>>
      /\ IF method # "POST"
         THEN /\ resp' = [status |-> 200, template |-> "add_course.html"]
              /\ UNCHANGED courses
         ELSE /\ courses' = Append(courses, course)
              /\ resp' = [status |-> 302, location |-> "courses",
                          flash |-> "Course added successfully!"]

----------------------------------------------------------------------------
(* part-5 and part-6: products.  Both applications name their model Product
   and their handlers index, add_product and delete_product; the suffix 5 or
   6 tells them apart here.  `up` is whether the database server answers
   while the request is handled: when it does not, the first statement that
   reaches the database raises sqlalchemy.exc.OperationalError.  A price is
   posted as a decimal integer text, which float() and int() read alike. *)

Product5(id, name, price, stock, description) ==
  [id |-> id, name |-> name, price |-> price, stock |-> stock, description |-> description]

Product6(id, name, quantity, price) ==
  [id |-> id, name |-> name, quantity |-> quantity, price |-> price]

index5(up) ==
  /\ req' = [app |-> 5, route |-> "index", up |-> up]
  /\ UNCHANGED <<library, school, shop, workers>>
  /\ IF up
     THEN resp' = [status |-> 200, template |-> "index.html", products |-> products5]
     ELSE resp' = [status |-> 200, template |-> "index.html", products |-> <<>>,
                   flash |-> "Database connection failed!"]

\* float(request.form['price']) and int(request.form.get('stock', 0)) raise
\* ValueError on a text that is no number; `except OperationalError` does not
\* catch it
add_product5(up, method, form) ==
  LET price == ParseInt(form.price)
      stock == IF form.stock = NULL THEN Val(0) ELSE ParseInt(form.stock[1])
      product == Product5(NextId(products5), form.name, price, stock,
                          Get(form.description, <<>>))
  IN  /\ req' = [app |-> 5, route |-> "add_product", up |-> up,
                 method |-> method, form |-> form]
      /\ UNCHANGED <<library, school, products6, workers>>
      /\ IF method # "POST"
         THEN /\ resp' = [status |-> 200, template |-> "add.html"]
              /\ UNCHANGED products5
         ELSE IF price = NULL \/ stock = NULL
         THEN /\ resp' = ServerError
              /\ UNCHANGED products5
         ELSE IF ~up
         THEN /\ resp' = [status |-> 302, location |-> "index",
                          flash |-> "Database error! Could not add product."]
              /\ UNCHANGED products5
         ELSE /\ products5' = Append(products5, product)
              /\ resp' = [status |-> 302, location |-> "index",
                          flash |-> "Product added successfully!"]

delete_product5(up, id) ==
  LET found == QueryGet(products5, id)
      others == {i \in 1..Len(products5) : products5[i].id # id}
  IN  /\ req' = [app |-> 5, route |-> "delete_product", up |-> up, id |-> id]
      /\ UNCHANGED <<library, school, products6, workers>>
      /\ IF ~up
         THEN /\ resp' = [status |-> 302, location |-> "index",
                          flash |-> "Database error! Could not delete product."]
              /\ UNCHANGED products5
         ELSE IF found = NULL
         THEN /\ resp' = [status |-> 404]
              /\ UNCHANGED products5
         ELSE /\ products5' = Select(products5, others)
              /\ resp' = [status |-> 302, location |-> "index", flash |-> "Product deleted!"]

\* no try around Product.query.all()
performance_test(up) ==
  /\ req' = [app |-> 5, route |-> "performance_test", up |-> up]
  /\ UNCHANGED <<library, school, shop, workers>>
  /\ IF up
     THEN resp' = [status |-> 200, records |-> Len(products5)]
     ELSE resp' = ServerError

index6(up) ==
  /\ req' = [app |-> 6, route |-> "index", up |-> up]
  /\ UNCHANGED <<library, school, shop, workers>>
  /\ resp' = [status |-> 200, template |-> "index.html",
              products |-> IF up THEN products6 ELSE <<>>]

\* no try around the commit: the OperationalError leaves the handler, and the
\* session is discarded with the request
add_product6(up, method, form) ==
  LET quantity == ParseInt(form.quantity)
      price == ParseInt(form.price)
      product == Product6(NextId(products6), form.name, quantity, price)
  IN  /\ req' = [app |-> 6, route |-> "add_product", up |-> up,
                 method |-> method, form |-> form]
      /\ UNCHANGED <<library, school, products5, workers>>
      /\ IF method # "POST"
         THEN /\ resp' = [status |-> 200, template |-> "add.html"]
              /\ UNCHANGED products6
         ELSE IF quantity = NULL \/ price = NULL \/ ~up
         THEN /\ resp' = ServerError
              /\ UNCHANGED products6
         ELSE /\ products6' = Append(products6, product)
              /\ resp' = [status |-> 302, location |-> "index"]

\* no try around get_or_404, delete and commit
delete_product6(up, id) ==
  LET found == QueryGet(products6, id)
      others == {i \in 1..Len(products6) : products6[i].id # id}
  IN  /\ req' = [app |-> 6, route |-> "delete_product", up |-> up, id |-> id]
      /\ UNCHANGED <<library, school, products5, workers>>
      /\ IF ~up
         THEN /\ resp' = ServerError
              /\ UNCHANGED products6
         ELSE IF found = NULL
         THEN /\ resp' = [status |-> 404]
              /\ UNCHANGED products6
         ELSE /\ products6' = Select(products6, others)
              /\ resp' = [status |-> 302, location |-> "index"]

----------------------------------------------------------------------------
(* The state after init_db() on a fresh database, and the requests *)

Init ==
  /\ books = SeedBooks
  /\ clock = Len(SeedBooks) + 1
  /\ teachers = SeedTeachers
  /\ courses = SeedCourses
  /\ students = <<>>
  /\ products5 = <<>>
  /\ products6 = <<>>
  /\ workers = <<>>
  /\ req = [route |-> "init_db"]
  /\ resp = [status |-> 0]

\* bounds
MaxListClock == 5   \* list specification: no book is created after this time
MaxClock == 6       \* other specifications: no book is created after this time
MaxPage == 3
MaxPerPage == 2
MaxCourses == 4     \* no course is added to this many courses
MaxProducts == 2    \* no product is added to this many products
MaxWorkers == 3     \* no request arrives after this many requests
MaxStudents == 2

RECURSIVE NatText(_)
NatText(n) ==
  IF n < 10 THEN <<Chr(48 + n)>> ELSE NatText(n \div 10) \o <<Chr(48 + (n % 10))>>

\* str(n)
IntText(n) == IF n < 0 THEN <<"-">> \o NatText(0 - n) ELSE NatText(n)

X == <<"X">>
Y == <<"Y">>
I1 == <<"i", "1">>

\* a JSON object from its keys and values
Json(title, author, year, isbn) ==
  Val([k \in {"title", "author", "year", "isbn"} |->
         CASE k = "title" -> title [] k = "author" -> author
           [] k = "year" -> year [] k = "isbn" -> isbn])

\* the object without the keys in `absent`
Without(json, absent) ==
  Val([k \in (DOMAIN json[1]) \ absent |-> json[1][k]])

(* requests of the list specification *)
PageArgs == {NULL} \cup {Val(IntText(n)) : n \in 0..MaxPage}
PerPageArgs == {NULL} \cup {Val(IntText(n)) : n \in 0..MaxPerPage}
SortArgs ==
  {NULL, Val(<<"b", "o", "g", "u", "s">>), Val(<<"t", "o", "_", "d", "i", "c", "t">>)}
    \cup {Val(ColumnText(c)) : c \in {"year", "isbn"}}
OrderArgs == {NULL, Val(Desc)}

ListArgs == [page : PageArgs, per_page : PerPageArgs, sort : SortArgs, order : OrderArgs]

\* a book of the same year as the seeded 'Clean Code'
ListBodies == { Json(Val(X), Val(Y), Val(2008), Val(I1)) }

NextList ==
  \/ \E args \in ListArgs : get_books(args)
  \/ \E json \in ListBodies : clock <= MaxListClock /\ create_book(json)
  \/ \E id \in {Len(SeedBooks)} : delete_book(id)

SpecList == Init /\ [][NextList]_vars

(* requests of the main specification: create, read, update, delete *)
CreateBodies ==
  { NULL,
    Without(Json(NULL, NULL, NULL, NULL), {"title", "author", "year", "isbn"}),
    Without(Json(Val(X), NULL, NULL, NULL), {"author", "year", "isbn"}),
    Without(Json(Val(<<>>), Val(Y), NULL, NULL), {"year", "isbn"}),
    Json(Val(X), Val(Y), Val(2008), Val(I1)),
    Without(Json(Val(X), Val(Y), NULL, Val(<<>>)), {"year"}) }

UpdateBodies ==
  { NULL,
    Without(Json(NULL, NULL, NULL, NULL), {"title", "author", "year", "isbn"}),
    Without(Json(Val(Y), NULL, NULL, NULL), {"author", "year", "isbn"}),
    Without(Json(NULL, NULL, NULL, NULL), {"author", "year", "isbn"}),
    Without(Json(NULL, Val(X), Val(1999), NULL), {"title", "isbn"}),
    Without(Json(NULL, NULL, NULL, Val(I1)), {"title", "author", "year"}),
    Without(Json(NULL, NULL, NULL, Val(<<>>)), {"title", "author"}) }

\* a seeded book, the first book created, and an id that is never stored
TargetIds == {1, Len(SeedBooks) + 1, MaxClock + 1}

Next ==
  \/ \E json \in CreateBodies : clock <= MaxClock /\ create_book(json)
  \/ \E id \in TargetIds : get_book(id)
  \/ \E id \in TargetIds, json \in UpdateBodies : update_book(id, json)
  \/ \E id \in TargetIds : delete_book(id)

Spec == Init /\ [][Next]_vars

(* requests of the uniqueness specification: books and students *)
E1 == <<"a", "@", "x">>
E2 == <<"b", "@", "x">>

UniqueBodies ==
  { Without(Json(Val(X), Val(Y), NULL, NULL), {"year", "isbn"}),
    Without(Json(Val(X), Val(Y), NULL, Val(I1)), {"year"}),
    Without(Json(Val(X), Val(Y), NULL, Val(<<>>)), {"year"}) }

StudentForms ==
  [name : {X}, email : {E1, E2, <<>>}, course_id : {IntText(1)}]

NextUnique ==
  \/ \E json \in UniqueBodies : clock <= MaxClock /\ create_book(json)
  \/ \E id \in {Len(SeedBooks) + 1} : delete_book(id)
  \/ \E method \in {"GET", "POST"}, form \in StudentForms :
        Len(students) < MaxStudents /\ add_student(method, form)
  \/ \E id \in 1..(MaxStudents + 1) : delete_student(id)

SpecUnique == Init /\ [][NextUnique]_vars

(* requests of the search specification *)
Martin == <<"M", "a", "r", "t", "i", "n">>

SearchArgs ==
  [q      : {NULL, Val(<<"C", "O", "D", "E">>), Val(<<"%">>), Val(<<"_", "n">>)},
   author : {NULL, Val(<<>>), Val(Martin), Val(<<"y">>)},
   year   : {NULL, Val(IntText(2008)), Val(<<"x">>)}]

SearchBodies ==
  { Without(Json(Val(<<"c", "o", "d", "e", "_", "n">>), Val(Y), Val(2008), NULL), {"isbn"}),
    Without(Json(Val(<<"1", "0", "0", "%">>), Val(Martin), NULL, NULL), {"year", "isbn"}) }

NextSearch ==
  \/ \E args \in SearchArgs : search_books(args)
  \/ \E json \in SearchBodies : clock <= MaxListClock /\ create_book(json)
  \/ \E id \in {3, Len(SeedBooks) + 1} : delete_book(id)

SpecSearch == Init /\ [][NextSearch]_vars

(* requests of the school specification: the part-3 forms, as a browser or
   any other HTTP client may post them *)
NoSuchId == IntText(9)   \* an id that no teacher and no course ever has

SchoolStudentForms ==
  [name : {X}, email : {E1, E2}, course_id : {IntText(1), NoSuchId}]

CourseForms ==
  [name : {X}, description : {NULL, Val(Y)}, teacher_id : {IntText(2), NoSuchId}]

NextSchool ==
  \/ \E method \in {"GET", "POST"}, form \in SchoolStudentForms :
        Len(students) < MaxStudents /\ add_student(method, form)
  \/ \E id \in 1..(MaxStudents + 1), method \in {"GET", "POST"}, form \in SchoolStudentForms :
        edit_student(id, method, form)
  \/ \E id \in 1..(MaxStudents + 1) : delete_student(id)
  \/ \E method \in {"GET", "POST"}, form \in CourseForms :
        Len(courses) < MaxCourses /\ add_course(method, form)

SpecSchool == Init /\ [][NextSchool]_vars

(* requests of the concurrency specification: POST /api/books requests that
   carry one of two isbn values and are handled at once *)
I2 == <<"i", "2">>

RaceBodies ==
  { Without(Json(Val(X), Val(Y), NULL, Val(I1)), {"year"}),
    Without(Json(Val(Y), Val(X), NULL, Val(I2)), {"year"}) }

NextRace ==
  \/ \E json \in RaceBodies : Len(workers) < MaxWorkers /\ create_book_lookup(json)
  \/ \E w \in 1..Len(workers) : create_book_add(w)
  \/ \E w \in 1..Len(workers) : create_book_commit(w)

SpecRace == Init /\ [][NextRace]_vars

(* requests of the unique-keys specification: books created with one of two
   isbn values and updated to one of them, students added with one of two
   emails and edited to one of them *)
KeyBodies ==
  { Without(Json(NULL, NULL, NULL, Val(I1)), {"title", "author", "year"}),
    Without(Json(NULL, NULL, NULL, Val(I2)), {"title", "author", "year"}),
    Without(Json(NULL, NULL, NULL, NULL), {"title", "author", "year"}) }

KeyForms ==
  [name : {X}, email : {E1, E2}, course_id : {IntText(1)}]

NextKeys ==
  \/ \E json \in RaceBodies : clock <= MaxClock /\ create_book(json)
  \/ \E id \in {Len(SeedBooks) + 1, Len(SeedBooks) + 2}, json \in KeyBodies :
        update_book(id, json)
  \/ \E id \in {Len(SeedBooks) + 1} : delete_book(id)
  \/ \E form \in KeyForms : Len(students) < MaxStudents /\ add_student("POST", form)
  \/ \E id \in 1..MaxStudents, form \in KeyForms : edit_student(id, "POST", form)
  \/ \E id \in {1} : delete_student(id)

SpecKeys == Init /\ [][NextKeys]_vars

(* requests of the products specification: each request with the database
   server answering (up) or not *)
ProductForms5 ==
  [name : {X}, price : {IntText(3), <<"x">>}, stock : {NULL, Val(IntText(4))},
   description : {NULL}]

ProductForms6 ==
  [name : {X}, quantity : {IntText(4)}, price : {IntText(3), <<"x">>}]

NextShop ==
  \/ \E up \in BOOLEAN : index5(up)
  \/ \E up \in BOOLEAN, method \in {"GET", "POST"}, form \in ProductForms5 :
        Len(products5) < MaxProducts /\ add_product5(up, method, form)
  \/ \E up \in BOOLEAN, id \in 1..(MaxProducts + 1) : delete_product5(up, id)
  \/ \E up \in BOOLEAN : performance_test(up)
  \/ \E up \in BOOLEAN : index6(up)
  \/ \E up \in BOOLEAN, method \in {"GET", "POST"}, form \in ProductForms6 :
        Len(products6) < MaxProducts /\ add_product6(up, method, form)
  \/ \E up \in BOOLEAN, id \in 1..(MaxProducts + 1) : delete_product6(up, id)

SpecShop == Init /\ [][NextShop]_vars

----------------------------------------------------------------------------
(* GET /api/books: pagination, total, normalisation, sorting *)

IsList == req.route = "get_books"

ReqPage == ArgInt(req.args.page, 1)
ReqPerPage == ArgInt(req.args.per_page, 5)
ReqSort == ArgStr(req.args.sort, ColumnText("id"))
ReqDesc == ArgStr(req.args.order, Asc) = Desc

\* the books of the whole collection as the request's sort and order list
\* them: the same request for page 1 with room for every book
FullListing ==
  get_books_response(books, [req.args EXCEPT !.page = Val(IntText(1)),
                                             !.per_page = Val(IntText(Len(books) + 1))]).books

Min(a, b) == IF a < b THEN a ELSE b

C2_TotalIsCount ==
  (IsList /\ resp.status = 200) => resp.total = Len(books)

C2_Witness ==
  /\ IsList /\ resp.status = 200
  /\ (ReqPage - 1) * ReqPerPage >= Len(books) /\ ReqPerPage >= 1
  /\ resp.books = <<>> /\ resp.total = Len(books) /\ resp.total >= 3

\* C3: with page <= 0 or per_page <= 0 the whole response equals the response
\* to the same request with the default (page 1, per_page 5) in its place
C3_NormalizedToDefault ==
  (IsList /\ (ReqPage <= 0 \/ ReqPerPage <= 0)) =>
    resp = get_books_response(books,
             [req.args EXCEPT
                !.page = IF ReqPage <= 0 THEN Val(IntText(1)) ELSE @,
                !.per_page = IF ReqPerPage <= 0 THEN Val(IntText(5)) ELSE @])

\* C4: a sort that is not the name of a Book field is ignored: 200, and the
\* books in the natural order of the collection
C4_UnknownSortIgnored ==
  (IsList /\ ~IsColumn(ReqSort)) =>
    /\ resp.status = 200
    /\ resp.books =
         LET items == paginate(books, ReqPage, ReqPerPage).items
         IN  [i \in 1..Len(items) |-> to_dict(items[i])]

\* position of the book with this id in the unsorted collection
Position(id) == CHOOSE i \in 1..Len(books) : books[i].id = id

\* C5: when sort names a Book field the listing is ordered by it, descending
\* for order 'desc' and ascending otherwise, and books of equal value keep
\* the relative order they have in the unsorted collection
C5_SortedAndStable ==
  (IsList /\ IsColumn(ReqSort)) =>
    \A i, j \in 1..Len(FullListing) :
      i < j =>
        LET col == ColumnOf(ReqSort)
            a == ColumnValue(books[Position(FullListing[i].id)], col)
            b == ColumnValue(books[Position(FullListing[j].id)], col)
        IN  /\ IF ReqDesc THEN ~ValueLess(col, a, b) ELSE ~ValueLess(col, b, a)
            /\ (a = b => Position(FullListing[i].id) < Position(FullListing[j].id))

----------------------------------------------------------------------------
(* Create, read, update, delete *)

ReqData == Get(req'.json, <<>>)

\* C6: a create whose unique field equals that of a stored record is
\* rejected and stores nothing: POST /api/books with the isbn of a stored
\* book is answered 400, the add-student form with the email of a stored
\* student adds no student, and the stored records are as before
C6_DuplicateRejected ==
  [][ /\ ( /\ req'.route = "create_book"
           /\ req'.json # NULL
           /\ DictGet(ReqData, "isbn") # NULL
           /\ \E i \in 1..Len(books) : books[i].isbn = DictGet(ReqData, "isbn") )
         => (resp'.status = 400 /\ books' = books)
      /\ ( /\ req'.route = "add_student"
           /\ req'.method = "POST"
           /\ \E i \in 1..Len(students) : students[i].email = req'.form.email )
         => students' = students ]_vars

\* C7: GET, PUT and DELETE of an id that is the key of no stored book answer
\* 404 with success=false and leave the collection as it was
C7_UnknownIdNotFound ==
  [][ ( /\ req'.route \in {"get_book", "update_book", "delete_book"}
        /\ req'.id \notin Ids(books) )
      => (resp'.status = 404 /\ resp'.success = FALSE /\ books' = books) ]_vars

C7_Witness ==
  /\ req.route = "delete_book" /\ req.id \notin Ids(books) /\ req.id = Len(SeedBooks) + 1
  /\ resp.status = 404 /\ Len(books) = 4 /\ books # SeedBooks

\* C8: a POST without a body, or with title or author missing or empty, is
\* answered 400 and stores nothing; a POST answered 201 has added exactly
\* one book, with the supplied title, author, year and isbn, and left the
\* books stored before as they were
C8_CreateValidated ==
  [][ req'.route = "create_book" =>
        /\ ( \/ req'.json = NULL
             \/ ~Truthy(DictGet(ReqData, "title"))
             \/ ~Truthy(DictGet(ReqData, "author")) )
           => (resp'.status = 400 /\ books' = books)
        /\ resp'.status = 201 =>
             /\ Len(books') = Len(books) + 1
             /\ SubSeq(books', 1, Len(books)) = books
             /\ LET b == books'[Len(books')]
                IN  /\ b.title = DictGet(ReqData, "title")
                    /\ b.author = DictGet(ReqData, "author")
                    /\ b.year = DictGet(ReqData, "year")
                    /\ b.isbn = DictGet(ReqData, "isbn")
                    /\ b.id \notin Ids(books)
                    /\ resp'.book = to_dict(b) ]_vars

\* {"title": "X"} without author is answered 400 after a book was created
C8_Witness ==
  /\ req.route = "create_book" /\ req.json # NULL
  /\ DOMAIN req.json[1] = {"title"} /\ resp.status = 400
  /\ Len(books) = 5 /\ books[5].title = Val(X) /\ books[5].isbn = Val(I1)

\* C10: a PUT on a stored book gives exactly the fields among title, author,
\* year, isbn that are present in the body their supplied values, leaves
\* every other field, id and created_at as they were, and leaves every other
\* book unchanged
C10_PartialUpdate ==
  [][ ( /\ req'.route = "update_book"
        /\ req'.id \in Ids(books)
        /\ req'.json # NULL )
      => /\ Len(books') = Len(books)
         /\ \A i \in 1..Len(books) :
              IF books[i].id # req'.id THEN books'[i] = books[i]
              ELSE /\ books'[i].id = books[i].id
                   /\ books'[i].created_at = books[i].created_at
                   /\ \A k \in {"title", "author", "year", "isbn"} :
                        books'[i][k] = IF k \in DOMAIN ReqData THEN ReqData[k]
                                       ELSE books[i][k] ]_vars

----------------------------------------------------------------------------
(* GET /api/books/search *)

\* text contains part, letters compared without regard to case
ContainsNoCase(text, part) ==
  \E k \in 0..(Len(text) - Len(part)) :
    \A i \in 1..Len(part) : LowerChar(text[k + i]) = LowerChar(part[i])

\* the filters of the request: a filter that is absent or empty restricts
\* nothing
Satisfies(b, args) ==
  /\ Truthy(args.q) => (b.title # NULL /\ ContainsNoCase(b.title[1], args.q[1]))
  /\ Truthy(args.author) => (b.author # NULL /\ ContainsNoCase(b.author[1], args.author[1]))
  /\ Truthy(args.year) => b.year = ParseInt(args.year[1])

\* C9: the search returns exactly the stored books that satisfy every
\* supplied filter (title contains q, author contains `author`, both without
\* regard to case, year equals `year`), and `count` is their number; on the
\* seeded books author=Martin returns exactly 'Clean Code'
C9_SearchIsConjunction ==
  (req.route = "search_books" /\ resp.status = 200) =>
    /\ {resp.books[i] : i \in 1..Len(resp.books)} =
         {to_dict(books[i]) : i \in {j \in 1..Len(books) : Satisfies(books[j], req.args)}}
    /\ resp.count = Len(resp.books)
    /\ (books = SeedBooks /\ req.args = [q |-> NULL, author |-> Val(Martin), year |-> NULL])
         => resp.books = <<to_dict(SeedBooks[3])>>

----------------------------------------------------------------------------
(* part-3: referential integrity *)

\* C11: in every state reached by add_student, edit_student, delete_student
\* and add_course, every stored student's course_id is the id of a stored
\* course and every stored course's teacher_id is the id of a stored teacher:
\* a write that names no existing parent is not stored.
C11_ReferentialIntegrity ==
  /\ \A i \in 1..Len(students) :
        /\ students[i].course_id # NULL
        /\ students[i].course_id[1] \in Ids(courses)
  /\ \A i \in 1..Len(courses) :
        /\ courses[i].teacher_id # NULL
        /\ courses[i].teacher_id[1] \in Ids(teachers)

----------------------------------------------------------------------------
(* part-5 and part-6: the database server does not answer *)

\* the request reaches a statement that talks to the database: every route
\* does at once, except add_product, which does at the commit of a POST
\* whose numbers were read
ReachesDatabase(r) ==
  IF r.route # "add_product" THEN TRUE
  ELSE /\ r.method = "POST"
       /\ ParseInt(r.form.price) # NULL
       /\ IF r.app = 5
          THEN r.form.stock # NULL => ParseInt(r.form.stock[1]) # NULL
          ELSE ParseInt(r.form.quantity) # NULL

\* C12: when the database is unreachable during a route of the product
\* applications (index, add_product, delete_product, performance_test), the
\* OperationalError is caught inside the handler and the request ends in a
\* normal response (a page or a redirect), never in an error that leaves
\* the handler; a failed add or delete leaves the products unchanged.
C12_OperationalErrorCaught ==
  [][ (~req'.up /\ ReachesDatabase(req')) =>
        /\ resp'.status \in {200, 302}
        /\ UNCHANGED shop ]_vars

----------------------------------------------------------------------------
(* part-4: concurrent POST /api/books with one isbn *)

\* the requests received so far that carry this isbn
SameIsbn(isbn) ==
  {w \in 1..Len(workers) :
     /\ workers[w].json # NULL
     /\ "isbn" \in DOMAIN workers[w].json[1]
     /\ workers[w].json[1]["isbn"] = Val(isbn)}

Answered(ws) == \A w \in ws : workers[w].pc = "done"

\* C13: under every interleaving of the steps (look up, insert, commit) of
\* two or more concurrent POST /api/books with the same non-empty isbn, at
\* most one book with that isbn is stored, and once all are answered exactly
\* one was answered 201 and every other 400 'ISBN already exists'; none ends
\* in an unhandled error.
C13_ConcurrentDuplicates ==
  \A isbn \in {I1, I2} :
    LET same == SameIsbn(isbn)
        created == {w \in same : workers[w].resp.status = 201}
    IN  Cardinality(same) >= 2 =>
          /\ Cardinality({i \in 1..Len(books) : books[i].isbn = Val(isbn)}) <= 1
          /\ \A w \in same : workers[w].resp.status # 500
          /\ Answered(same) =>
                /\ Cardinality(created) = 1
                /\ \A w \in same \ created :
                      /\ workers[w].resp.status = 400
                      /\ workers[w].resp.error = "ISBN already exists"

----------------------------------------------------------------------------
(* unique keys: Book.isbn and Student.email *)

UniqueIsbn(rows) ==
  \A i, j \in 1..Len(rows) :
    (i # j /\ rows[i].isbn # NULL) => rows[i].isbn # rows[j].isbn

UniqueEmail(rows) ==
  \A i, j \in 1..Len(rows) : i # j => rows[i].email # rows[j].email

\* the PUT names a stored book and carries the isbn of another stored book
PutTakesIsbn(r) ==
  /\ r.route = "update_book" /\ r.json # NULL
  /\ "isbn" \in DOMAIN r.json[1] /\ r.json[1]["isbn"] # NULL
  /\ \E i, j \in 1..Len(books) :
        books[i].id = r.id /\ i # j /\ books[j].isbn = r.json[1]["isbn"]

\* the form names a stored student and carries the email of another one
EditTakesEmail(r) ==
  /\ r.route = "edit_student" /\ r.method = "POST"
  /\ \E i, j \in 1..Len(students) :
        students[i].id = r.id /\ i # j /\ students[j].email = r.form.email

\* C14: after any sequence of create, update and delete requests no two
\* stored books share a non-null isbn and no two stored students share an
\* email; and an update that would give a record the unique value of another
\* record is answered as a validation error (400 for PUT /api/books/{id},
\* not an unhandled failure for edit_student) and leaves every record
\* unchanged.
C14_UniqueKeysKept ==
  [][ /\ UniqueIsbn(books') /\ UniqueEmail(students')
      /\ PutTakesIsbn(req') => (resp'.status = 400 /\ UNCHANGED <<books, students>>)
      /\ EditTakesEmail(req') => (resp'.status # 500 /\ UNCHANGED <<books, students>>)
    ]_vars

----------------------------------------------------------------------------
(* GET /api/books/search: outcomes *)

\* C15: GET /api/books/search has no failure outcome: for every q, author
\* and year, a year that is not a decimal integer included, it answers 200
\* with success = true, and it never modifies the collection.
C15_SearchNeverFails ==
  [][ req'.route = "search_books" =>
        /\ resp'.status = 200
        /\ resp'.success
        /\ books' = books ]_vars

====
